---- MODULE Spec2Model ----
(***************************************************************************)
(* Sorted-spikes encoding models and point-process log-likelihoods of      *)
(* non_local_detector: the spline/Poisson GLM backend                      *)
(* (likelihoods/sorted_spikes_glm_jax.py) and the kernel-density backend   *)
(* (likelihoods/sorted_spikes_kde.py).                                     *)
(*                                                                         *)
(* Floating point is held in fixed point: a float is an integer number of  *)
(* units, EPS is one unit and 1.0 is One units; NaN, -inf and +inf are     *)
(* three values outside the range the arithmetic reaches, and every        *)
(* operation propagates them as IEEE-754 does.  Arrays are sequences; a    *)
(* 2-D array is a sequence of rows.                                        *)
(***************************************************************************)
EXTENDS Integers, Sequences, FiniteSets, TLC

VARIABLES position, spikes, model, res, call, ret

vars == <<position, spikes, model, res, call, ret>>

(***************************************************************************)
(* Bounds of the model.                                                    *)
(***************************************************************************)
MaxTime == 2        \* time steps of the caller's position / spike arrays
MaxNeurons == 2     \* neuron columns of the spike array
NBins == 3          \* spatial bins of the track geometry
MaxBlock == 3       \* largest block size handed to the KDE

(***************************************************************************)
(* Floats.                                                                 *)
(***************************************************************************)
EPS == 1
One == 64 * EPS
NaN == -9000000
NegInf == -8000000
PosInf == 8000000

IsNaN(a) == a = NaN
IsFinite(a) == a # NaN /\ a # NegInf /\ a # PosInf

Sign(a) == IF a = PosInf THEN 1 ELSE IF a = NegInf THEN -1
           ELSE IF a > 0 THEN 1 ELSE IF a < 0 THEN -1 ELSE 0

Inf(s) == IF s > 0 THEN PosInf ELSE NegInf

\* Integer division truncating toward zero, as a float rounds a magnitude.
Quot(a, b) == IF (a >= 0) = (b > 0) THEN (IF a >= 0 THEN a ELSE -a) \div (IF b > 0 THEN b ELSE -b)
              ELSE -((IF a >= 0 THEN a ELSE -a) \div (IF b > 0 THEN b ELSE -b))

Add(a, b) ==
    IF IsNaN(a) \/ IsNaN(b) THEN NaN
    ELSE IF ~IsFinite(a) /\ ~IsFinite(b) THEN (IF a = b THEN a ELSE NaN)
    ELSE IF ~IsFinite(a) THEN a
    ELSE IF ~IsFinite(b) THEN b
    ELSE a + b

Neg(a) == IF IsNaN(a) THEN NaN ELSE IF a = PosInf THEN NegInf
          ELSE IF a = NegInf THEN PosInf ELSE -a

Sub(a, b) == Add(a, Neg(b))

\* a * n for a float a and a plain number n (a count, an exact factor).
Scale(a, n) ==
    IF IsNaN(a) THEN NaN
    ELSE IF ~IsFinite(a) THEN (IF n = 0 THEN NaN ELSE Inf(Sign(a) * Sign(n)))
    ELSE a * n

\* a * b for two floats.
Mul(a, b) ==
    IF IsNaN(a) \/ IsNaN(b) THEN NaN
    ELSE IF ~IsFinite(a) \/ ~IsFinite(b)
         THEN (IF Sign(a) * Sign(b) = 0 THEN NaN ELSE Inf(Sign(a) * Sign(b)))
    ELSE Quot(a * b, One)

\* a / b for two floats.
Div(a, b) ==
    IF IsNaN(a) \/ IsNaN(b) THEN NaN
    ELSE IF ~IsFinite(a) THEN (IF ~IsFinite(b) THEN NaN
                               ELSE Inf(Sign(a) * (IF b < 0 THEN -1 ELSE 1)))
    ELSE IF ~IsFinite(b) THEN 0
    ELSE IF b = 0 THEN (IF a = 0 THEN NaN ELSE Inf(Sign(a)))
    ELSE Quot(a * One, b)

\* a > b as a float comparison: false whenever a NaN is involved.
Gt(a, b) ==
    IF IsNaN(a) \/ IsNaN(b) THEN FALSE
    ELSE IF a = b THEN FALSE
    ELSE IF a = PosInf \/ b = NegInf THEN TRUE
    ELSE IF a = NegInf \/ b = PosInf THEN FALSE
    ELSE a > b

Lt(a, b) == Gt(b, a)

\* a >= b as a float comparison.
Ge(a, b) == ~IsNaN(a) /\ ~IsNaN(b) /\ ~Gt(b, a)

\* clip(a, a_min=lo, a_max=None): max(a, lo), which keeps a NaN.
Clip(a, lo) == IF IsNaN(a) THEN NaN ELSE IF Gt(lo, a) THEN lo ELSE a

RECURSIVE Pow2(_)
Pow2(n) == IF n <= 0 THEN 1 ELSE 2 * Pow2(n - 1)

RECURSIVE Log2(_)
Log2(n) == IF n <= 1 THEN 0 ELSE 1 + Log2(n \div 2)

\* exp of a float (base 2 stands for base e).
Exp(a) ==
    IF IsNaN(a) THEN NaN
    ELSE IF a = PosInf THEN PosInf
    ELSE IF a = NegInf THEN 0
    ELSE IF a >= 0 THEN (IF a \div One > 12 THEN PosInf ELSE One * Pow2(a \div One))
    ELSE IF (-a) \div One > 12 THEN 0
    ELSE One \div Pow2((-a + One - 1) \div One)

\* log of a float (base 2 stands for base e).
Log(a) ==
    IF IsNaN(a) THEN NaN
    ELSE IF a = PosInf THEN PosInf
    ELSE IF a = NegInf THEN NaN
    ELSE IF a < 0 THEN NaN
    ELSE IF a = 0 THEN NegInf
    ELSE One * (Log2(a) - Log2(One))

\* log(k!) of a spike count.
RECURSIVE LogFactorial(_)
LogFactorial(k) == IF k <= 1 THEN 0 ELSE Log(k * One) + LogFactorial(k - 1)

\* Sum of a sequence of floats, left to right.
RECURSIVE SumSeq(_)
SumSeq(s) == IF s = <<>> THEN 0 ELSE Add(SumSeq(SubSeq(s, 1, Len(s) - 1)), s[Len(s)])

\* mean of a sequence of floats: 0/0 (NaN) over no element.
Mean(s) == IF s = <<>> THEN NaN ELSE Div(SumSeq(s), Len(s) * One)

(***************************************************************************)
(* Arrays.  A jax/numpy vector is [ndim, data]: ndim is 1, or 0 once a     *)
(* one-element vector has been squeezed to a scalar.                       *)
(***************************************************************************)
Vec(data) == [ndim |-> 1, data |-> data]

\* ndarray.squeeze(): drops every axis of length one.
Squeeze(a) == IF a.ndim = 1 /\ Len(a.data) = 1 THEN [ndim |-> 0, data |-> a.data] ELSE a

Zeros(n) == [i \in 1..n |-> 0]

\* a[mask] for a boolean mask: the rows of a where the mask is true, in order.
RECURSIVE BoolIndex(_, _)
BoolIndex(a, mask) ==
    IF a = <<>> THEN <<>>
    ELSE LET n == Len(a)
             init == BoolIndex(SubSeq(a, 1, n - 1), SubSeq(mask, 1, n - 1))
         IN  IF mask[n] THEN Append(init, a[n]) ELSE init

Min2(a, b) == IF a < b THEN a ELSE b
Max2(a, b) == IF a > b THEN a ELSE b

(***************************************************************************)
(* sorted_spikes_kde.py: the kernel density estimator.                     *)
(***************************************************************************)
\* exp(-0.5 * ((x - mean) / sigma) ** 2) / (sigma * sqrt(2 pi)); coordinates and
\* sigma are in grid units.  Far enough from the mean the density underflows to 0.
gaussian_pdf(x, mean, sigma) ==
    IF IsNaN(x) \/ IsNaN(mean) THEN NaN
    ELSE LET z2 == ((x - mean) * (x - mean)) \div (sigma * sigma)
         IN  IF Pow2(Min2(z2, 8)) > One THEN 0
             ELSE (One \div Pow2(z2)) \div (2 * sigma)

\* One entry of the distance matrix: the product over the dimensions.
RECURSIVE KernelProduct(_, _, _, _)
KernelProduct(eval_point, sample, std, dim) ==
    IF dim = 0 THEN One
    ELSE Mul(KernelProduct(eval_point, sample, std, dim - 1),
             gaussian_pdf(eval_point[dim], sample[dim], std[dim]))

kde(eval_points, samples, std) ==
    Squeeze(Vec([i \in 1..Len(eval_points) |->
        Mean([j \in 1..Len(samples) |->
            KernelProduct(eval_points[i], samples[j], std, Len(std))])]))

\* jax.lax.dynamic_update_slice(operand, update, (start,)): the ranks must agree
\* (a TypeError otherwise); the start index is clamped so that the update fits.
dynamic_update_slice(operand, update, start) ==
    IF operand.ndim # update.ndim \/ Len(update.data) > Len(operand.data)
    THEN [raised |-> TRUE, ndim |-> operand.ndim, data |-> operand.data]
    ELSE LET s == Max2(0, Min2(start, Len(operand.data) - Len(update.data)))
         IN  [raised |-> FALSE, ndim |-> operand.ndim,
              data |-> [i \in 1..Len(operand.data) |->
                          IF i > s /\ i <= s + Len(update.data)
                          THEN update.data[i - s] ELSE operand.data[i]]]

\* The loop of block_kde from start_ind on; density is the array so far.
RECURSIVE BlockLoop(_, _, _, _, _, _)
BlockLoop(eval_points, samples, std, block_size, start_ind, density) ==
    IF start_ind >= Len(eval_points) THEN density
    ELSE LET block == SubSeq(eval_points, start_ind + 1,
                             Min2(start_ind + block_size, Len(eval_points)))
             updated == dynamic_update_slice(
                            density, Squeeze(kde(block, samples, std)), start_ind)
         IN  IF updated.raised THEN updated
             ELSE BlockLoop(eval_points, samples, std, block_size,
                            start_ind + block_size, updated)

block_kde(eval_points, samples, std, block_size) ==
    BlockLoop(eval_points, samples, std, block_size, 0,
              [raised |-> FALSE, ndim |-> 1, data |-> Zeros(Len(eval_points))])

\* KDEModel(std, block_size).fit(samples): block_size 0 stands for None.
KDEModel_fit(std, block_size, samples) ==
    [std |-> std, block_size |-> block_size, samples_ |-> samples]

\* KDEModel.predict: a scalar std is repeated for every column of eval_points.
KDEModel_predict(m, eval_points, n_dims) ==
    block_kde(eval_points, m.samples_, [d \in 1..n_dims |-> m.std],
              IF m.block_size = 0 THEN Len(eval_points) ELSE m.block_size)

(***************************************************************************)
(* Track geometry, built outside these two files and handed to the         *)
(* fitters: NBins bins along x, one row of bins in y.                      *)
(***************************************************************************)
place_bin_centers == [b \in 1..NBins |-> <<2 * (b - 1), 0>>]

\* place_bin_edges.T: the edges of each dimension.
place_bin_edges == <<[e \in 1..(NBins + 1) |-> 2 * (e - 1) - 1], <<-1, 1>>>>

NDims == Len(place_bin_edges)

(***************************************************************************)
(* sorted_spikes_glm_jax.py: the spline design matrix.                     *)
(***************************************************************************)
emission_knot_spacing == 2

\* non_local_detector.core.atleast_2d: a 2-D array is returned as it is (the
\* same array, not a copy).
atleast_2d(a) == a

\* non_local_detector.environment.get_n_bins: the extent of the edges over
\* the knot spacing, rounded up.
get_n_bins(edges, bin_size) ==
    (edges[Len(edges)] - edges[1] + bin_size - 1) \div bin_size

\* np.linspace(lo, hi, n)[1:-1] on the integer grid.
LinspaceInner(lo, hi, n) ==
    IF n < 3 THEN <<>> ELSE [i \in 1..(n - 2) |-> lo + (i * (hi - lo)) \div (n - 1)]

Column(a, d) == [i \in 1..Len(a) |-> a[i][d]]

\* pos.min() / pos.max(): NaN as soon as one entry is NaN.
ArrayMin(s) == IF \E i \in 1..Len(s) : IsNaN(s[i]) THEN NaN
               ELSE CHOOSE m \in {s[i] : i \in 1..Len(s)} : \A i \in 1..Len(s) : m <= s[i]
ArrayMax(s) == IF \E i \in 1..Len(s) : IsNaN(s[i]) THEN NaN
               ELSE CHOOSE m \in {s[i] : i \in 1..Len(s)} : \A i \in 1..Len(s) : m >= s[i]

\* The inner knots of one dimension: the inner points of the edge range that
\* lie strictly inside the range of the training positions.
InnerKnots(pos, edges) ==
    LET n_points == get_n_bins(edges, emission_knot_spacing)
        knots == LinspaceInner(edges[1], edges[Len(edges)], n_points)
    IN  BoolIndex(knots, [i \in 1..Len(knots) |->
                            Gt(knots[i], ArrayMin(pos)) /\ Lt(knots[i], ArrayMax(pos))])

\* One dimension's part of a basis row: a linear term and one truncated
\* linear term per knot stand for the cubic regression spline.
RECURSIVE SplineTerm(_, _, _)
SplineTerm(x, knots, k) ==
    IF k = 0 THEN Scale(x, One)
    ELSE Add(SplineTerm(x, knots, k - 1),
             IF Gt(x, knots[k]) THEN Scale(Sub(x, knots[k]), One) ELSE Scale(x, 0))

\* The basis row of one position row under the fitted knots: the intercept
\* and the spline column.
SplineBasis(design_info, row) ==
    <<One, SumSeq([d \in 1..Len(row) |->
              SplineTerm(row[d], design_info.inner_knots[d],
                         Len(design_info.inner_knots[d]))])>>

\* make_spline_design_matrix: the design matrix of the training position and
\* its design_info (the knots a later build_design_matrices reuses).
make_spline_design_matrix(train_position, bin_edges) ==
    LET p == atleast_2d(train_position)
        info == [inner_knots |-> [d \in 1..NDims |-> InnerKnots(Column(p, d), bin_edges[d])]]
    IN  [design_info |-> info,
         matrix |-> [i \in 1..Len(p) |-> SplineBasis(info, p[i])]]

\* np.any(np.isnan(position), axis=1) for one row.
RowIsNaN(row) == \E d \in 1..Len(row) : IsNaN(row[d])

\* make_spline_predict_matrix without its last assignment, design_matrix[is_nan] = np.nan.
make_spline_predict_matrix_NoOverwrite(design_info, position_arg) ==
    LET p == atleast_2d(position_arg)
        filled == [i \in 1..Len(p) |->
                      IF RowIsNaN(p[i]) THEN [d \in 1..Len(p[i]) |-> 0] ELSE p[i]]
    IN  [design_matrix |-> [i \in 1..Len(p) |-> SplineBasis(design_info, filled[i])],
         position |-> filled]

\* make_spline_predict_matrix: the returned design matrix, and the content of
\* the array atleast_2d returned after the in-place position[is_nan] = 0.0.
make_spline_predict_matrix(design_info, position_arg) ==
    LET p == atleast_2d(position_arg)
        is_nan == [i \in 1..Len(p) |-> RowIsNaN(p[i])]
        filled == [i \in 1..Len(p) |->
                      IF is_nan[i] THEN [d \in 1..Len(p[i]) |-> 0] ELSE p[i]]
        built == [i \in 1..Len(p) |-> SplineBasis(design_info, filled[i])]
    IN  [design_matrix |-> [i \in 1..Len(p) |->
                              IF is_nan[i] THEN [c \in 1..Len(built[i]) |-> NaN]
                              ELSE built[i]],
         position |-> filled]

(***************************************************************************)
(* sorted_spikes_glm_jax.py: the Poisson regression.                       *)
(***************************************************************************)
\* row @ coef
Dot(row, coef) == SumSeq([c \in 1..Len(row) |-> Mul(row[c], coef[c])])

\* scipy.stats.poisson.logpmf(k, mu) = k log(mu) - mu - log(k!)
poisson_logpmf(k, mu) ==
    IF IsNaN(mu) THEN NaN
    ELSE Sub(Sub(IF k = 0 THEN 0 ELSE Scale(Log(mu), k), mu), LogFactorial(k))

\* scipy.optimize.minimize(neglogp, x0, method="BFGS", jac=dlike): the result
\* the optimizer ends with.  outcome says whether it left x0 and whether it
\* reports convergence.
minimize(x0, outcome) ==
    [x |-> IF outcome.moved THEN <<Add(x0[1], One), -One>> ELSE x0,
     success |-> outcome.success]

\* The OptimizeResult inside fit_poisson_regression.
OptimizeResult(neuron_spikes, outcome) ==
    LET average == Mean([t \in 1..Len(neuron_spikes) |-> neuron_spikes[t] * One])
        initial_condition == <<Log(average), 0>>
    IN  minimize(initial_condition, outcome)

\* fit_poisson_regression returns res.x.
fit_poisson_regression(neuron_spikes, outcome) ==
    OptimizeResult(neuron_spikes, outcome).x

(***************************************************************************)
(* sorted_spikes_glm_jax.py: the GLM fitter and predictor.                 *)
(***************************************************************************)
NCols(a) == IF a = <<>> THEN 0 ELSE Len(a[1])

\* place_field of one neuron: exp(predict_matrix @ coef), EPS outside the
\* track interior, clipped at EPS.
GlmPlaceField(predict_matrix, coef, is_track_interior) ==
    [b \in 1..Len(predict_matrix) |->
        Clip(IF is_track_interior[b] THEN Exp(Dot(predict_matrix[b], coef)) ELSE EPS, EPS)]

\* outcomes[n] is what the optimizer does on neuron n.
fit_sorted_spikes_glm_jax_encoding_model(train_position, train_spikes, is_track_interior, outcomes) ==
    LET emission_design_matrix == make_spline_design_matrix(train_position, place_bin_edges)
        emission_predict_matrix ==
            make_spline_predict_matrix(emission_design_matrix.design_info,
                                       place_bin_centers).design_matrix
        coefficients == [n \in 1..NCols(train_spikes) |->
                            fit_poisson_regression(Column(train_spikes, n), outcomes[n])]
    IN  [backend |-> "glm",
         coefficients |-> coefficients,
         emission_design_info |-> emission_design_matrix.design_info,
         place_fields |-> [n \in 1..NCols(train_spikes) |->
                              GlmPlaceField(emission_predict_matrix, coefficients[n],
                                            is_track_interior)],
         is_track_interior |-> is_track_interior]

\* The local branch: one value per time step, summed over zip(spikes.T, coefficients).
GlmLocalLikelihood(predict_matrix, spikes_arg, coefficients) ==
    [t \in 1..Len(spikes_arg) |->
        <<SumSeq([n \in 1..Min2(NCols(spikes_arg), Len(coefficients)) |->
            poisson_logpmf(spikes_arg[t][n],
                           Clip(Exp(Dot(predict_matrix[t], coefficients[n])), EPS))])>>]

\* The mask with its negation lost: log_likelihood[:, is_track_interior] = np.nan
GlmMask_Inverted(log_likelihood, is_track_interior) ==
    [t \in 1..Len(log_likelihood) |->
        [b \in 1..Len(log_likelihood[t]) |->
            IF is_track_interior[b] THEN NaN ELSE log_likelihood[t][b]]]

\* log_likelihood[:, ~is_track_interior] = np.nan
GlmMask(log_likelihood, is_track_interior) ==
    [t \in 1..Len(log_likelihood) |->
        [b \in 1..Len(log_likelihood[t]) |->
            IF is_track_interior[b] THEN log_likelihood[t][b] ELSE NaN]]

\* The non-local branch: summed over zip(spikes.T, place_fields), then masked.
GlmNonLocalLikelihood(spikes_arg, place_fields, is_track_interior) ==
    GlmMask([t \in 1..Len(spikes_arg) |->
                [b \in 1..NCols(place_fields) |->
                    SumSeq([n \in 1..Min2(NCols(spikes_arg), Len(place_fields)) |->
                        poisson_logpmf(spikes_arg[t][n], place_fields[n][b])])]],
            is_track_interior)

\* The returned array, and the caller's position array after the call.
predict_sorted_spikes_glm_jax_log_likelihood(position_arg, spikes_arg, m, is_local) ==
    IF is_local
    THEN LET made == make_spline_predict_matrix(m.emission_design_info, position_arg)
         IN  [raised |-> FALSE,
              value |-> GlmLocalLikelihood(made.design_matrix, spikes_arg, m.coefficients),
              position |-> made.position]
    ELSE [raised |-> FALSE,
          value |-> GlmNonLocalLikelihood(spikes_arg, m.place_fields, m.is_track_interior),
          position |-> position_arg]

(***************************************************************************)
(* sorted_spikes_kde.py: the KDE fitter and predictor.                     *)
(***************************************************************************)
position_std == 1

\* How many of the first b entries of the mask are true.
RECURSIVE CountTrue(_, _)
CountTrue(mask, b) == IF b = 0 THEN 0 ELSE CountTrue(mask, b - 1) + (IF mask[b] THEN 1 ELSE 0)

\* jnp.zeros((n,)).at[mask].set(values)
ScatterAtMask(mask, values) ==
    [b \in 1..Len(mask) |-> IF mask[b] THEN values[CountTrue(mask, b)] ELSE 0]

\* The rate with the occupancy test written occupancy >= 0.0.
KdeRate_GeZero(neuron_mean_rate, marginal_density, occupancy) ==
    Clip(Mul(neuron_mean_rate,
             IF Ge(occupancy, 0) THEN Div(marginal_density, occupancy) ELSE EPS),
         EPS)

\* neuron_mean_rate * jnp.where(occupancy > 0.0, marginal_density / occupancy, EPS),
\* clipped at EPS.
KdeRate(neuron_mean_rate, marginal_density, occupancy) ==
    Clip(Mul(neuron_mean_rate,
             IF Gt(occupancy, 0) THEN Div(marginal_density, occupancy) ELSE EPS),
         EPS)

\* jnp.mean(spikes, axis=0).squeeze()
MeanRates(train_spikes) ==
    Squeeze(Vec([n \in 1..NCols(train_spikes) |->
        Mean([t \in 1..Len(train_spikes) |-> train_spikes[t][n] * One])]))

\* spikes.T.astype(bool) for one neuron.
SpikeIndicator(train_spikes, n) == [t \in 1..Len(train_spikes) |-> train_spikes[t][n] # 0]

fit_sorted_spikes_kde_encoding_model(train_position, train_spikes, is_track_interior, block_size) ==
    LET interior_centers == BoolIndex(place_bin_centers, is_track_interior)
        occupancy_model == KDEModel_fit(position_std, block_size, train_position)
        occupancy == KDEModel_predict(occupancy_model, interior_centers, NDims)
        mean_rates == MeanRates(train_spikes)
        marginal_models == [n \in 1..NCols(train_spikes) |->
            KDEModel_fit(position_std, block_size,
                         BoolIndex(train_position, SpikeIndicator(train_spikes, n)))]
        marginal_density == [n \in 1..NCols(train_spikes) |->
            KDEModel_predict(marginal_models[n], interior_centers, NDims)]
        place_fields == [n \in 1..NCols(train_spikes) |->
            ScatterAtMask(is_track_interior,
                [i \in 1..Len(interior_centers) |->
                    KdeRate(mean_rates.data[n], marginal_density[n].data[i],
                            occupancy.data[i])])]
    IN  IF occupancy.raised                      \* block_kde raised for the occupancy
           \/ mean_rates.ndim = 0                \* zip() over a 0-d array: TypeError
           \/ \E n \in 1..NCols(train_spikes) : marginal_density[n].raised
        THEN [raised |-> TRUE, backend |-> "none"]
        ELSE [raised |-> FALSE,
              backend |-> "kde",
              marginal_models |-> marginal_models,
              occupancy_model |-> occupancy_model,
              occupancy |-> occupancy.data,
              mean_rates |-> mean_rates.data,
              place_fields |-> place_fields,
              no_spike_part_log_likelihood |->
                  [b \in 1..Len(is_track_interior) |->
                      SumSeq([n \in 1..NCols(train_spikes) |-> place_fields[n][b]])],
              is_track_interior |-> is_track_interior]

\* jax.scipy.special.xlogy(x, y): 0 where x is 0, x * log(y) elsewhere.
xlogy(x, y) == IF x = 0 THEN 0 ELSE Scale(Log(y), x)

\* The local branch: xlogy(spikes, rate) - rate summed over
\* zip(spikes.T, marginal_models, mean_rates).
KdeLocalLikelihood(position_arg, spikes_arg, m) ==
    LET occupancy == KDEModel_predict(m.occupancy_model, position_arg, NDims)
        n_zip == Min2(NCols(spikes_arg), Len(m.marginal_models))
        marginal_density == [n \in 1..n_zip |->
            KDEModel_predict(m.marginal_models[n], position_arg, NDims)]
        local_rate == [n \in 1..n_zip |-> [t \in 1..Len(position_arg) |->
            KdeRate(m.mean_rates[n], marginal_density[n].data[t], occupancy.data[t])]]
    IN  IF occupancy.raised \/ \E n \in 1..n_zip : marginal_density[n].raised
        THEN [raised |-> TRUE, value |-> <<>>]
        ELSE [raised |-> FALSE,
              value |-> [t \in 1..Len(spikes_arg) |->
                  <<SumSeq([n \in 1..n_zip |->
                      Sub(xlogy(spikes_arg[t][n], local_rate[n][t]), local_rate[n][t])])>>]]

\* jnp.where(is_track_interior[jnp.newaxis, :], log_likelihood, jnp.log(EPS))
KdeMask(log_likelihood, is_track_interior) ==
    [t \in 1..Len(log_likelihood) |->
        [b \in 1..Len(log_likelihood[t]) |->
            IF is_track_interior[b] THEN log_likelihood[t][b] ELSE Log(EPS)]]

\* The non-local branch: xlogy summed over zip(spikes.T, place_fields), less
\* no_spike_part_log_likelihood, then masked.
KdeNonLocalLikelihood(spikes_arg, m) ==
    KdeMask([t \in 1..Len(spikes_arg) |->
                [b \in 1..NCols(m.place_fields) |->
                    Sub(SumSeq([n \in 1..Min2(NCols(spikes_arg), Len(m.place_fields)) |->
                            xlogy(spikes_arg[t][n], m.place_fields[n][b])]),
                        m.no_spike_part_log_likelihood[b])]],
            m.is_track_interior)

predict_sorted_spikes_kde_log_likelihood(position_arg, spikes_arg, m, is_local) ==
    IF is_local
    THEN KdeLocalLikelihood(position_arg, spikes_arg, m)
    ELSE [raised |-> FALSE, value |-> KdeNonLocalLikelihood(spikes_arg, m)]

(***************************************************************************)
(* The caller.  position and spikes are the caller's arrays, [T x D] and   *)
(* [T x N]; model is the bundle the last fit returned; call and ret are    *)
(* the arguments and the outcome of the last call; res is the              *)
(* OptimizeResult of the last fit_poisson_regression.                      *)
(***************************************************************************)
PositionRows == {<<0, 0>>, <<3, 0>>, <<NaN, 0>>, <<3, NaN>>}

SpikeCounts == {0, 2}

\* is_track_interior: a track has at least one interior bin.
Masks == {m \in [1..NBins -> BOOLEAN] : \E b \in 1..NBins : m[b]}

Outcomes == [moved : BOOLEAN, success : BOOLEAN]

NoModel == [backend |-> "none"]

\* The spike arrays a caller may hand to a predictor: the array itself, the
\* array without its last neuron, the array with one more neuron.
SpikeVariants(a) ==
    {a,
     [t \in 1..Len(a) |-> SubSeq(a[t], 1, Len(a[t]) - 1)],
     [t \in 1..Len(a) |-> Append(a[t], a[t][1])]}

\* A position row with a missing coordinate.
HasMissing(row) == \E d \in 1..Len(row) : row[d] = NaN

Init ==
    /\ \E T \in 1..MaxTime : \E N \in 1..MaxNeurons :
          /\ position \in [1..T -> PositionRows]
          /\ spikes \in [1..T -> [1..N -> SpikeCounts]]
    /\ model = NoModel
    /\ res = [valid |-> FALSE]
    /\ call = [op |-> "none"]
    /\ ret = [raised |-> FALSE]

\* The caller makes one call at a time.
Idle == call.op = "none"

\* The caller fits the GLM on the time steps whose position is complete (the
\* design-matrix builder takes no missing coordinate).  outcome is what the
\* optimizer does on this data.
FitGlm ==
    LET keep == [t \in 1..Len(position) |-> ~HasMissing(position[t])]
        train_position == BoolIndex(position, keep)
        train_spikes == BoolIndex(spikes, keep)
        N == NCols(spikes)
    IN  /\ Idle
        /\ model.backend = "none"
        /\ train_position # <<>>
        /\ \E is_track_interior \in Masks : \E outcome \in Outcomes :
              /\ model' = fit_sorted_spikes_glm_jax_encoding_model(
                              train_position, train_spikes, is_track_interior,
                              [n \in 1..N |-> outcome])
              /\ res' = [valid |-> TRUE,
                         x |-> OptimizeResult(Column(train_spikes, N), outcome).x,
                         success |-> OptimizeResult(Column(train_spikes, N), outcome).success]
              /\ call' = [op |-> "fit_glm", position_arg |-> train_position,
                          spikes_arg |-> train_spikes,
                          is_track_interior |-> is_track_interior]
              /\ ret' = [raised |-> FALSE]
        /\ UNCHANGED <<position, spikes>>

\* The bundle a fit returns becomes the caller's model; a fit that raises
\* leaves the caller without one.
FitKde ==
    /\ Idle
    /\ model.backend = "none"
    /\ \E is_track_interior \in Masks : \E block_size \in 1..MaxBlock :
          LET fitted == fit_sorted_spikes_kde_encoding_model(
                            position, spikes, is_track_interior, block_size)
          IN  /\ model' = IF fitted.raised THEN model ELSE fitted
              /\ call' = [op |-> "fit_kde", position_arg |-> position,
                          spikes_arg |-> spikes,
                          is_track_interior |-> is_track_interior,
                          block_size |-> block_size]
              /\ ret' = [raised |-> fitted.raised]
    /\ UNCHANGED <<position, spikes, res>>

PredictGlm ==
    /\ Idle
    /\ model.backend = "glm"
    /\ \E is_local \in BOOLEAN : \E spikes_arg \in SpikeVariants(spikes) :
          LET r == predict_sorted_spikes_glm_jax_log_likelihood(
                       position, spikes_arg, model, is_local)
          IN  /\ position' = r.position
              /\ call' = [op |-> "predict_glm", position_arg |-> position,
                          spikes_arg |-> spikes_arg, is_local |-> is_local]
              /\ ret' = [raised |-> r.raised, value |-> r.value]
    /\ UNCHANGED <<spikes, model, res>>

PredictKde ==
    /\ Idle
    /\ model.backend = "kde"
    /\ \E is_local \in BOOLEAN : \E spikes_arg \in SpikeVariants(spikes) :
          LET r == predict_sorted_spikes_kde_log_likelihood(
                       position, spikes_arg, model, is_local)
          IN  /\ call' = [op |-> "predict_kde", position_arg |-> position,
                          spikes_arg |-> spikes_arg, is_local |-> is_local]
              /\ ret' = [raised |-> r.raised, value |-> r.value]
    /\ UNCHANGED <<position, spikes, model, res>>

\* A direct call of make_spline_predict_matrix with the fitted design_info.
SplinePredict ==
    /\ Idle
    /\ model.backend = "glm"
    /\ LET made == make_spline_predict_matrix(model.emission_design_info, position)
       IN  /\ position' = made.position
           /\ call' = [op |-> "make_spline_predict_matrix", position_arg |-> position]
           /\ ret' = [raised |-> FALSE, value |-> made.design_matrix]
    /\ UNCHANGED <<spikes, model, res>>

\* The caller has looked at the outcome of the call and goes on.
Return ==
    /\ ~Idle
    /\ call' = [op |-> "none"]
    /\ ret' = [raised |-> FALSE]
    /\ UNCHANGED <<position, spikes, model, res>>

Next == FitGlm \/ FitKde \/ PredictGlm \/ PredictKde \/ SplinePredict \/ Return

Spec == Init /\ [][Next]_vars

(***************************************************************************)
(* Direct calls of block_kde: the evaluation points are the first M bin    *)
(* centers, the samples the first n rows of the caller's position.         *)
(***************************************************************************)
Bandwidths == {1, 2}

BlockKde ==
    /\ Idle
    /\ \E M \in 0..NBins : \E n \in 0..Len(position) :
       \E std \in Bandwidths : \E block_size \in 1..MaxBlock :
          LET eval_points == SubSeq(place_bin_centers, 1, M)
              samples == SubSeq(position, 1, n)
              std_vec == [d \in 1..NDims |-> std]
              r == block_kde(eval_points, samples, std_vec, block_size)
          IN  /\ call' = [op |-> "block_kde", eval_points |-> eval_points,
                          samples |-> samples, std |-> std_vec,
                          block_size |-> block_size]
              /\ ret' = [raised |-> r.raised, value |-> r.data]
    /\ UNCHANGED <<position, spikes, model, res>>

NextKde == BlockKde \/ Return

SpecKde == Init /\ [][NextKde]_vars

(***************************************************************************)
(* The claims.                                                             *)
(***************************************************************************)
Fitted == model.backend # "none"

NeuronCount == Len(model.place_fields)

InPredict == call.op \in {"predict_glm", "predict_kde"}

\* C1: block_kde returns, for every block size, the vector the unblocked kde
\* returns for the same evaluation points, samples and bandwidth: no block
\* fails and every element is the one kde computes.
C1_BlockKdeEqualsKde ==
    call.op = "block_kde" =>
        /\ ~ret.raised
        /\ Len(ret.value) = Len(call.eval_points)
        /\ \A i \in 1..Len(call.eval_points) :
              ret.value[i] = kde(call.eval_points, call.samples, call.std).data[i]

\* C2: every entry of the place_fields a fitter returned is >= EPS, interior
\* bin or not, and in the GLM bundle every exterior entry is EPS exactly.
C2_PlaceFieldsFloored ==
    Fitted =>
        \A n \in 1..NeuronCount : \A b \in 1..NBins :
            /\ Ge(model.place_fields[n][b], EPS)
            /\ (model.backend = "glm" /\ ~model.is_track_interior[b]
                    => model.place_fields[n][b] = EPS)

\* C3: in the bundle a KDE fit returned, the place field of a neuron that
\* never spiked in the training spikes is EPS at every bin.
C3_SilentNeuronFits ==
    call.op = "fit_kde" /\ ~ret.raised =>
        \A n \in 1..NCols(call.spikes_arg) :
            (\A t \in 1..Len(call.spikes_arg) : call.spikes_arg[t][n] = 0) =>
                \A b \in 1..NBins : model.place_fields[n][b] = EPS

\* C4: make_spline_predict_matrix returns an all-NaN row for every position
\* row with a missing coordinate, and the spline basis of the row under the
\* fitted knots for every other row.
C4_MissingRowsPropagate ==
    call.op = "make_spline_predict_matrix" =>
        /\ Len(ret.value) = Len(call.position_arg)
        /\ \A i \in 1..Len(call.position_arg) :
              IF HasMissing(call.position_arg[i])
              THEN \A c \in 1..Len(ret.value[i]) : ret.value[i][c] = NaN
              ELSE ret.value[i] = SplineBasis(model.emission_design_info,
                                              call.position_arg[i])

\* C4's case: an array with a row that misses a coordinate and a complete row.
C4_Witness ==
    /\ call.op = "make_spline_predict_matrix"
    /\ \E i \in 1..Len(call.position_arg) : HasMissing(call.position_arg[i])
    /\ \E i \in 1..Len(call.position_arg) : ~HasMissing(call.position_arg[i])

\* The sum over the neurons zip() pairs, at one time step and one bin.
AccumulatedGlm(t, b) ==
    SumSeq([n \in 1..Min2(NCols(call.spikes_arg), NeuronCount) |->
        poisson_logpmf(call.spikes_arg[t][n], model.place_fields[n][b])])

AccumulatedKde(t, b) ==
    Sub(SumSeq([n \in 1..Min2(NCols(call.spikes_arg), NeuronCount) |->
            xlogy(call.spikes_arg[t][n], model.place_fields[n][b])]),
        model.no_spike_part_log_likelihood[b])

\* C5: a non-local prediction holds the backend's invalid marker (NaN for the
\* GLM, log(EPS) for the KDE) at every exterior bin and every time step, and
\* the value accumulated over the neurons at every interior bin.
C5_ExteriorMarked ==
    InPredict /\ ~call.is_local /\ ~ret.raised =>
        \A t \in 1..Len(call.spikes_arg) : \A b \in 1..NBins :
            ret.value[t][b] =
                IF model.is_track_interior[b]
                THEN (IF call.op = "predict_glm" THEN AccumulatedGlm(t, b)
                      ELSE AccumulatedKde(t, b))
                ELSE (IF call.op = "predict_glm" THEN NaN ELSE Log(EPS))

\* C5's case: a non-local prediction over a track with an exterior and an
\* interior bin, for spikes of at least one neuron.
C5_Witness ==
    /\ InPredict /\ ~call.is_local /\ ~ret.raised
    /\ NCols(call.spikes_arg) >= 1
    /\ \E b \in 1..NBins : ~model.is_track_interior[b]
    /\ \E b \in 1..NBins : model.is_track_interior[b]

\* C6: a predictor returns an array of T' rows, each of one column in local
\* mode and of one column per bin in non-local mode.
C6_ReturnedShape ==
    InPredict =>
        /\ ~ret.raised
        /\ Len(ret.value) = Len(call.spikes_arg)
        /\ \A t \in 1..Len(call.spikes_arg) :
              Len(ret.value[t]) = IF call.is_local THEN 1 ELSE NBins

\* The keys under which a bundle could carry the optimizer's status.
StatusKeys == {"success", "converged", "status", "message"}

\* C7: when the optimizer did not converge the GLM fitter still returns the
\* coefficients it ended with, and the bundle carries the convergence status.
C7_ConvergenceRetrievable ==
    call.op = "fit_glm" /\ res.valid /\ ~res.success =>
        /\ model.coefficients[NeuronCount] = res.x
        /\ DOMAIN model \cap StatusKeys # {}

\* C8: a predictor handed a spike array whose number of neuron columns is
\* not the number of neurons of the fitted model raises and returns nothing.
C8_MismatchRejected ==
    InPredict /\ NCols(call.spikes_arg) # NeuronCount => ret.raised

\* The densities of the bundle at interior bin b for neuron n.
OccupancyAt(b) == model.occupancy[CountTrue(model.is_track_interior, b)]

MarginalAt(n, b) ==
    kde(<<place_bin_centers[b]>>, model.marginal_models[n].samples_,
        [d \in 1..NDims |-> model.marginal_models[n].std]).data[1]

\* C9 as stated: at an interior bin the KDE place field is
\* mean_rate * (marginal / occupancy) floored at EPS where the occupancy is
\* positive, and EPS exactly where the occupancy is zero.
C9_ZeroOccupancyIsEps ==
    model.backend = "kde" =>
        \A n \in 1..NeuronCount : \A b \in 1..NBins :
            model.is_track_interior[b] =>
                /\ Gt(OccupancyAt(b), 0) =>
                      model.place_fields[n][b] =
                          Clip(Mul(model.mean_rates[n],
                                   Div(MarginalAt(n, b), OccupancyAt(b))), EPS)
                /\ OccupancyAt(b) = 0 => model.place_fields[n][b] = EPS

\* C9 amended: where the occupancy is not positive the ratio is EPS, so the
\* place field is mean_rate * EPS floored at EPS: EPS exactly for a mean rate
\* of at most one spike per time step, mean_rate * EPS above it.
C9_ZeroOccupancyRatioIsEps ==
    model.backend = "kde" =>
        \A n \in 1..NeuronCount : \A b \in 1..NBins :
            model.is_track_interior[b] =>
                /\ Gt(OccupancyAt(b), 0) =>
                      model.place_fields[n][b] =
                          Clip(Mul(model.mean_rates[n],
                                   Div(MarginalAt(n, b), OccupancyAt(b))), EPS)
                /\ ~Gt(OccupancyAt(b), 0) =>
                      /\ model.place_fields[n][b] =
                             Clip(Mul(model.mean_rates[n], EPS), EPS)
                      /\ (model.mean_rates[n] <= One => model.place_fields[n][b] = EPS)
                      /\ (model.mean_rates[n] >= 2 * One => Gt(model.place_fields[n][b], EPS))

\* C9's case: a fitted KDE bundle with an interior bin of zero occupancy and
\* a neuron of more than one spike per time step.
C9_Witness ==
    /\ model.backend = "kde"
    /\ \E n \in 1..NeuronCount : \E b \in 1..NBins :
          /\ model.is_track_interior[b]
          /\ OccupancyAt(b) = 0
          /\ model.mean_rates[n] > One

\* C10: a call that goes through make_spline_predict_matrix leaves the
\* caller's position array as it was.
C10_PositionUnchanged ==
    call.op \in {"make_spline_predict_matrix", "predict_glm"} =>
        position = call.position_arg

====
